---- MODULE Spec2Model ----
(***************************************************************************)
(* Model of src/src/epub_converter.rs: the EPUB correction pipeline        *)
(*   read_epub -> fix_encoding -> fix_body_id_link -> fix_book_language    *)
(*   -> write_epub                                                         *)
(*                                                                         *)
(* Text is modelled as a sequence of lexical tokens (TLA+ strings); the    *)
(* string a sequence stands for is the concatenation of its tokens.  The   *)
(* string primitives of the code (contains, replace, trim_start, the       *)
(* regular expression, the attribute and element lookups of the parser)    *)
(* are computed on the token sequence.  Every literal the code builds      *)
(* with format! is tokenised the same way as the documents are, so that a  *)
(* substring match of the real strings is a subsequence match here.        *)
(***************************************************************************)
EXTENDS Integers, Sequences, FiniteSets, TLC

\* Number of times the pipeline is run, each run reading the previous output.
MaxRuns == 2
\* Largest number of whitespace tokens in front of a content document.
MaxLeadingWs == 1

(***************************************************************************)
(* String primitives                                                       *)
(***************************************************************************)

\* pat occurs in s at position i
StartsAt(s, pat, i) ==
    /\ i + Len(pat) - 1 <= Len(s)
    /\ \A k \in 1..Len(pat) : s[i + k - 1] = pat[k]

\* str::contains
Contains(s, pat) == \E i \in 1..(Len(s) + 1) : StartsAt(s, pat, i)

\* str::replace: every non-overlapping occurrence, left to right.  An empty
\* pattern matches at every boundary (here: every token boundary).
RECURSIVE ReplaceFrom(_, _, _, _)
ReplaceFrom(s, pat, rep, i) ==
    IF i > Len(s) THEN (IF pat = <<>> THEN rep ELSE <<>>)
    ELSE IF pat = <<>> THEN rep \o <<s[i]>> \o ReplaceFrom(s, pat, rep, i + 1)
    ELSE IF StartsAt(s, pat, i) THEN rep \o ReplaceFrom(s, pat, rep, i + Len(pat))
    ELSE <<s[i]>> \o ReplaceFrom(s, pat, rep, i + 1)

Replace(s, pat, rep) == ReplaceFrom(s, pat, rep, 1)

Whitespace == {" ", "\n"}

\* str::trim_start
RECURSIVE TrimStart(_)
TrimStart(s) ==
    IF s # <<>> /\ Head(s) \in Whitespace THEN TrimStart(Tail(s)) ELSE s

\* least index j >= from with s[j] = tok, 0 when there is none
IndexOf(s, tok, from) ==
    IF \E j \in from..Len(s) : s[j] = tok
    THEN CHOOSE j \in from..Len(s) :
            /\ s[j] = tok
            /\ \A k \in from..(j - 1) : s[k] # tok
    ELSE 0

None == [some |-> FALSE, val |-> <<>>]
Some(v) == [some |-> TRUE, val |-> v]

(***************************************************************************)
(* Markup lookups (scraper: Html::parse_document, select, attr, id,        *)
(* inner_html).  An element <tag a="v">..</tag> is tokenised               *)
(*   "<tag", " a=\"", v.., "\"", ">", .., "</tag>"                         *)
(***************************************************************************)

\* dom.select(tag).next(): index of the first start tag, 0 when absent
SelectFirst(dom, open) == IndexOf(dom, open, 1)

\* index of the token closing the start tag that begins at e
TagEnd(dom, e) ==
    LET a == IndexOf(dom, ">", e + 1)
        b == IndexOf(dom, "/>", e + 1)
    IN  IF a = 0 THEN b ELSE IF b = 0 THEN a ELSE IF a < b THEN a ELSE b

\* element.attr(name)
Attr(dom, e, name) ==
    LET end == TagEnd(dom, e)
        a == IndexOf(dom, name, e + 1)
        q == IndexOf(dom, "\"", a + 1)
    IN  IF a = 0 \/ end = 0 \/ a > end \/ q = 0 \/ q > end THEN None
        ELSE Some(SubSeq(dom, a + 1, q - 1))

\* element.inner_html() of an element without nested elements of its own tag.
\* The input documents are written the way the parser serialises them, so the
\* serialised inner markup is the slice of the source between the tags.
InnerHtml(dom, e, close) ==
    LET end == TagEnd(dom, e)
        c == IndexOf(dom, close, end + 1)
    IN  IF c = 0 THEN SubSeq(dom, end + 1, Len(dom))
        ELSE SubSeq(dom, end + 1, c - 1)

(***************************************************************************)
(* Paths: a path is tokenised  dir, "/", stem, ".", extension              *)
(***************************************************************************)

non_binary_suffixes ==
    {"mimetype", "html", "xhtml", "htm", "xml", "svg", "css", "opf", "ncx"}

\* file.name().ends_with(x) for some textual suffix x
EndsWithTextualSuffix(name) ==
    name # <<>> /\ name[Len(name)] \in non_binary_suffixes

\* enclosed_name() ... ends_with("/"): the entry is a directory
EndsWithSlash(name) == name # <<>> /\ name[Len(name)] = "/"

\* Path::extension()
Extension(name) ==
    IF Len(name) >= 3 /\ name[Len(name) - 1] = "." /\ name[Len(name) - 2] # "/"
    THEN Some(name[Len(name)])
    ELSE None

IsHtmlOrXhtml(name) ==
    Extension(name).some /\ Extension(name).val \in {"html", "xhtml"}

InvalidUtf8 == {"\\xFF"}

\* Read::read_to_string into an empty buffer, the error dropped: bytes that
\* are not UTF-8 leave the buffer empty
read_to_string(raw) ==
    IF \E i \in 1..Len(raw) : raw[i] \in InvalidUtf8 THEN <<>> ELSE raw

\* Read::read_to_end
read_to_end(raw) == raw

get_name_from_data(file) == file.file_name

\* files.iter().find(|f| get_name_from_data(f) == file_name).cloned()
get_file_from_files(fs, file_name) ==
    IF \E i \in 1..Len(fs) : get_name_from_data(fs[i]) = file_name
    THEN Some(fs[CHOOSE i \in 1..Len(fs) :
                    /\ get_name_from_data(fs[i]) = file_name
                    /\ \A k \in 1..(i - 1) : get_name_from_data(fs[k]) # file_name])
    ELSE None

\* HashMap::insert
Insert(map, k, v) ==
    [x \in (DOMAIN map) \cup {k} |-> IF x = k THEN v ELSE map[x]]

EmptyMap == [x \in {} |-> <<>>]

(***************************************************************************)
(* read_epub                                                               *)
(***************************************************************************)

FileData(e) == [file_name |-> e.name, file_data |-> read_to_string(e.data)]

\* variant: a binary entry read the way a textual entry is
BinaryFileDataAsText(e) ==
    [file_name |-> e.name, file_data |-> read_to_string(e.data)]

BinaryFileData(e) == [file_name |-> e.name, file_data |-> read_to_end(e.data)]

RECURSIVE ReadFiles(_, _)
ReadFiles(zip, i) ==
    IF i > Len(zip) THEN <<>>
    ELSE IF EndsWithTextualSuffix(zip[i].name)
         THEN <<FileData(zip[i])>> \o ReadFiles(zip, i + 1)
         ELSE ReadFiles(zip, i + 1)

RECURSIVE ReadBinaryFiles(_, _)
ReadBinaryFiles(zip, i) ==
    IF i > Len(zip) THEN <<>>
    ELSE IF ~EndsWithTextualSuffix(zip[i].name) /\ ~EndsWithSlash(zip[i].name)
         THEN <<BinaryFileData(zip[i])>> \o ReadBinaryFiles(zip, i + 1)
         ELSE ReadBinaryFiles(zip, i + 1)

(***************************************************************************)
(* fix_encoding                                                            *)
(***************************************************************************)

encoding == <<"<?xml", " version=\"1.0\"", " encoding=\"utf-8\"", "?>">>

VersionAttrs == {" version=\"1.0\"", " version='1.1'"}

EncodingAttrs ==
    {" encoding=\"utf-8\"", " encoding=\"UTF-8\"", " encoding=\"iso-8859-1\""}

\* re.is_match(html) for
\*   (?m)<\?xml\s+version=["'][\d.]+["']\s+encoding=["'][a-zA-Z\d\-.]+["'].*?\?>
\* the expression is not anchored, and . does not cross a line break
ReIsMatch(html) ==
    \E i \in 1..Len(html) :
        /\ html[i] = "<?xml"
        /\ i + 2 <= Len(html)
        /\ html[i + 1] \in VersionAttrs
        /\ html[i + 2] \in EncodingAttrs
        /\ \E j \in (i + 3)..Len(html) :
              /\ html[j] = "?>"
              /\ \A k \in (i + 3)..(j - 1) : html[k] # "\n"

Msg(kind, a, b, c) == [kind |-> kind, a |-> a, b |-> b, c |-> c]

\* "Prefixed correct encoding to html for {name}"
MsgEncoding(name) == Msg("Prefixed correct encoding to html for", name, <<>>, <<>>)

\* "Replaced link target with {src} in {target} in file {file_name_as_str}"
MsgLink(src, target, name) == Msg("Replaced link target with", src, target, name)

\* "Fixed language to be supported language from {original_language}"
MsgLanguage(original) ==
    Msg("Fixed language to be supported language from", original, <<>>, <<>>)

\* "Added missing language tag"
MsgAdded == Msg("Added missing language tag", <<>>, <<>>, <<>>)

Pass(alt, probs) == [altered |-> alt, problems |-> probs, panic |-> ""]

RECURSIVE EncodingLoop(_, _, _, _)
EncodingLoop(fs, i, alt, probs) ==
    IF i > Len(fs) THEN Pass(alt, probs)
    ELSE LET file == fs[i]
             name == get_name_from_data(file)
             html == TrimStart(file.file_data)
             encoding_prefixed_html == encoding \o <<"\n">> \o html
         IN  IF ~IsHtmlOrXhtml(file.file_name)
             THEN EncodingLoop(fs, i + 1, alt, probs)
             ELSE IF ReIsMatch(html)
             THEN EncodingLoop(fs, i + 1, Insert(alt, file.file_name, html), probs)
             ELSE EncodingLoop(fs, i + 1,
                               Insert(alt, file.file_name, encoding_prefixed_html),
                               Append(probs, MsgEncoding(name)))

(***************************************************************************)
(* fix_body_id_link                                                        *)
(***************************************************************************)

\* dom.select("body").next() and then e.value().id(); the input documents
\* have one body start tag
BodyId(html) ==
    LET e == SelectFirst(html, "<body")
    IN  IF e = 0 THEN None ELSE Attr(html, e, " id=\"")

\* format!("{} + # + {}", base_filename, id)
LinkTarget(base_filename, id) == base_filename \o <<" + # + ">> \o id

\* phase A: the (link_target, base_filename) pairs, in file order
RECURSIVE body_id_list(_, _)
body_id_list(fs, i) ==
    IF i > Len(fs) THEN <<>>
    ELSE LET file == fs[i]
             base_filename == get_name_from_data(file)
             id == BodyId(TrimStart(file.file_data))
         IN  IF IsHtmlOrXhtml(file.file_name) /\ id.some
             THEN <<[src |-> LinkTarget(base_filename, id.val),
                     target |-> base_filename]>> \o body_id_list(fs, i + 1)
             ELSE body_id_list(fs, i + 1)

\* variant: a repair step that substitutes in the overlay content of the entry
LinkSourceOverlay(file, alt) ==
    IF file.file_name \in DOMAIN alt THEN alt[file.file_name] ELSE file.file_data

\* the text a repair step of phase B substitutes in
LinkSource(file, alt) == file.file_data

\* phase B: for file in files { for (src, target) in body_id_list { .. } }
RECURSIVE LinkLoop(_, _, _, _, _, _)
LinkLoop(fs, pairs, i, j, alt, probs) ==
    IF i > Len(fs) THEN Pass(alt, probs)
    ELSE IF j > Len(pairs) THEN LinkLoop(fs, pairs, i + 1, 1, alt, probs)
    ELSE LET file == fs[i]
             src == pairs[j].src
             target == pairs[j].target
         IN  IF Contains(file.file_data, src)
             THEN LinkLoop(fs, pairs, i, j + 1,
                           Insert(alt, file.file_name,
                                  Replace(LinkSource(file, alt), src, target)),
                           Append(probs,
                                  MsgLink(src, target, get_name_from_data(file))))
             ELSE LinkLoop(fs, pairs, i, j + 1, alt, probs)

(***************************************************************************)
(* fix_book_language                                                       *)
(***************************************************************************)

preferred_language == <<"en">>

supported_languages == {<<"en">>}

ContainerPath == <<"META-INF", "/", "container", ".", "xml">>

OebpsPackage == <<"application/oebps-package+xml">>

\* variant: a missing package path falls back to a conventional one
OpfFilenameDefault(container_file_data) ==
    LET e == SelectFirst(container_file_data, "<rootfile")
        v == Attr(container_file_data, e, " media-type=\"")
    IN  IF e # 0 /\ v.some /\ v.val = OebpsPackage
           /\ Attr(container_file_data, e, " full-path=\"").some
        THEN Attr(container_file_data, e, " full-path=\"")
        ELSE Some(<<"content", ".", "opf">>)

\* the first rootfile element, and its full-path when its media-type is the
\* package media type
OpfFilename(container_file_data) ==
    LET e == SelectFirst(container_file_data, "<rootfile")
        v == Attr(container_file_data, e, " media-type=\"")
    IN  IF e # 0 /\ v.some /\ v.val = OebpsPackage
        THEN Attr(container_file_data, e, " full-path=\"")
        ELSE None

\* .replace("dc:language", "dclanguage")
RenameToken(tok) ==
    IF tok = "<dc:language" THEN "<dclanguage"
    ELSE IF tok = "</dc:language>" THEN "</dclanguage>"
    ELSE tok

ReplaceDcLanguage(data) == [i \in 1..Len(data) |-> RenameToken(data[i])]

\* format!("<dc:language>{}</dc:language>", language)
LanguageTag(language) ==
    <<"<dc:language", ">">> \o language \o <<"</dc:language>">>

Panic(msg, alt, probs) == [altered |-> alt, problems |-> probs, panic |-> msg]

\* lines 203-241, once the OPF entry is found
LanguageFix(opf_file, alt, probs) ==
    LET opf_dom == ReplaceDcLanguage(opf_file.file_data)
        language_tag == SelectFirst(opf_dom, "<dclanguage")
        metadata_tag == SelectFirst(opf_dom, "<metadata")
    IN  IF metadata_tag = 0
        THEN Panic("Metadata tag missing in opf file", alt, probs)
        ELSE IF language_tag # 0
        THEN LET original_language == InnerHtml(opf_dom, language_tag, "</dclanguage>")
                 string_to_replace == LanguageTag(original_language)
                 new_string == LanguageTag(preferred_language)
                 fixed_file == Replace(opf_file.file_data, string_to_replace, new_string)
             IN  IF original_language \notin supported_languages
                 THEN Pass(Insert(alt, opf_file.file_name, fixed_file),
                           Append(probs, MsgLanguage(original_language)))
                 ELSE Pass(alt, probs)
        ELSE LET metadata_html == InnerHtml(opf_dom, metadata_tag, "</metadata>")
                 fixed_html == metadata_html \o <<"\n">> \o LanguageTag(preferred_language)
                 fixed_file == Replace(opf_file.file_data, metadata_html, fixed_html)
             IN  Pass(Insert(alt, opf_file.file_name, fixed_file),
                      Append(probs, MsgAdded))

\* lines 179-201, then LanguageFix
BookLanguage(fs, alt, probs) ==
    LET container == get_file_from_files(fs, ContainerPath)
    IN  IF ~container.some
        THEN Panic("Cannot find META-INF/container.xml", alt, probs)
        ELSE LET opf_filename == OpfFilename(container.val.file_data)
             IN  IF ~opf_filename.some
                 THEN Panic("Cannot find OPF file", alt, probs)
                 ELSE LET opf_file == get_file_from_files(fs, opf_filename.val)
                      IN  IF ~opf_file.some
                          THEN Panic("called Option::unwrap() on a None value",
                                     alt, probs)
                          ELSE LanguageFix(opf_file.val, alt, probs)

(***************************************************************************)
(* write_epub                                                              *)
(***************************************************************************)

\* lines 250-261: overlay content when the path is in the overlay
TextOut(file, alt) ==
    [name |-> file.file_name,
     data |-> IF file.file_name \in DOMAIN alt THEN alt[file.file_name]
              ELSE file.file_data]

\* lines 262-267
BinaryOut(file) == [name |-> file.file_name, data |-> file.file_data]

\* variant: the binary entries written before the textual ones
WrittenEntriesBinaryFirst(fs, bins, alt) ==
    [i \in 1..Len(bins) |-> BinaryOut(bins[i])]
        \o [i \in 1..Len(fs) |-> TextOut(fs[i], alt)]

WrittenEntries(fs, bins, alt) ==
    [i \in 1..Len(fs) |-> TextOut(fs[i], alt)]
        \o [i \in 1..Len(bins) |-> BinaryOut(bins[i])]

(***************************************************************************)
(* Input archives                                                          *)
(***************************************************************************)

Entry(name, data) == [name |-> name, data |-> data]

OpfPath == <<"content", ".", "opf">>
NameA == <<"a", ".", "xhtml">>
NameB == <<"b", ".", "html">>

Mimetype == Entry(<<"mimetype">>, <<"application/epub+zip">>)
MetaInfDir == Entry(<<"META-INF", "/">>, <<>>)
Cover == Entry(<<"cover", ".", "png">>, <<"\\x89PNG", "\\xFF", "IEND">>)
Font == Entry(<<"font", ".", "ttf">>, <<"\\x00\\x01", "glyf">>)

Rootfile(media, path) ==
    <<"<rootfile", " media-type=\"", media, "\"">>
        \o (IF path = <<>> THEN <<>> ELSE <<" full-path=\"">> \o path \o <<"\"">>)
        \o <<"/>">>

ContainerDoc(rootfiles) ==
    <<"<container", ">", "<rootfiles", ">">> \o rootfiles
        \o <<"</rootfiles>", "</container>">>

GoodContainer == ContainerDoc(Rootfile(OebpsPackage[1], OpfPath))

\* None: the archive has no META-INF/container.xml
Containers ==
    { None,
      Some(GoodContainer),
      Some(ContainerDoc(<<>>)),
      Some(ContainerDoc(Rootfile("application/pdf", OpfPath))),
      Some(ContainerDoc(Rootfile("application/pdf", <<"book", ".", "xml">>)
                            \o Rootfile(OebpsPackage[1], OpfPath))),
      Some(ContainerDoc(Rootfile(OebpsPackage[1], <<>>))),
      Some(ContainerDoc(Rootfile(OebpsPackage[1], <<"missing", ".", "opf">>))) }

Title == <<"<dc:title", ">", "T", "</dc:title>">>
Lang(attrs, code) == <<"<dc:language">> \o attrs \o <<">">> \o code \o <<"</dc:language>">>
IdAttr == <<" id=\"", "l", "\"">>
LinkA == LinkTarget(NameA, <<"x">>)
LinkB == LinkTarget(NameB, <<"y">>)
Source == <<"<dc:source", ">">> \o LinkA \o <<"</dc:source>">>
Metadata(inner) == <<"<metadata", ">">> \o inner \o <<"</metadata>">>
OpfDoc(inner) == <<"<package", ">">> \o inner \o <<"</package>">>

OpfFr == OpfDoc(Metadata(Title \o Lang(<<>>, <<"fr">>)))

Opfs ==
    { OpfDoc(Title \o Lang(<<>>, <<"fr">>)),
      OpfDoc(Metadata(Title)),
      OpfDoc(Metadata(Title \o Lang(<<>>, <<"en">>))),
      OpfFr,
      OpfDoc(Metadata(Title \o Lang(IdAttr, <<"fr">>))),
      OpfDoc(Metadata(Title \o Lang(IdAttr, <<"en">>))),
      OpfDoc(Metadata(Title \o Lang(<<>>, <<"fr">>) \o Lang(<<>>, <<"de">>))),
      OpfDoc(Metadata(Title \o Lang(<<>>, <<"en">>) \o Lang(<<>>, <<"en">>))),
      OpfDoc(Metadata(Title \o Source \o Lang(<<>>, <<"fr">>))),
      OpfDoc(Metadata(Title \o Source)) }

\* a container variant with a plain package document, or the good container
\* with a package variant
Structures ==
    {[container |-> c, opf |-> OpfFr] : c \in Containers}
        \cup {[container |-> Some(GoodContainer), opf |-> o] : o \in Opfs}

RECURSIVE Ws(_)
Ws(n) == IF n = 0 THEN <<>> ELSE <<"\n">> \o Ws(n - 1)

Declaration(enc) == <<"<?xml", " version=\"1.0\"">> \o enc \o <<"?>", "\n">>

Declarations ==
    { <<>>,
      Declaration(<<" encoding=\"utf-8\"">>),
      Declaration(<<" encoding=\"UTF-8\"">>),
      Declaration(<<" encoding=\"iso-8859-1\"">>),
      Declaration(<<>>),
      <<"<!--c-->">> \o Declaration(<<" encoding=\"utf-8\"">>) }

Prefixes == {Ws(n) \o d : n \in 0..MaxLeadingWs, d \in Declarations}

BodyTag(id) ==
    IF id = <<>> THEN <<"<body", ">">> ELSE <<"<body", " id=\"">> \o id \o <<"\"", ">">>

Doc(prefix, id, text) ==
    prefix \o <<"<html", ">">> \o BodyTag(id) \o text \o <<"</body>", "</html>">>

DocsA == {Doc(p, id, <<"Hi">>) : p \in {<<>>, Declaration(<<" encoding=\"utf-8\"">>)},
                                   id \in {<<>>, <<"x">>}}

LinkTexts == {<<>>, LinkA, LinkB, LinkA \o <<" ">> \o LinkB, LinkA \o <<" ">> \o LinkA}

DocsB == {Doc(p, id, <<"see ">> \o t) : p \in Prefixes, id \in {<<>>, <<"y">>},
                                         t \in LinkTexts}

Archive(hasDir, binFirst, st, a, b) ==
    <<Mimetype>>
        \o (IF hasDir THEN <<MetaInfDir>> ELSE <<>>)
        \o (IF binFirst THEN <<Cover>> ELSE <<>>)
        \o (IF st.container.some THEN <<Entry(ContainerPath, st.container.val)>> ELSE <<>>)
        \o <<Entry(OpfPath, st.opf), Entry(NameA, a), Entry(NameB, b)>>
        \o (IF binFirst THEN <<>> ELSE <<Cover>>)
        \o <<Font>>

\* the structures the content documents are combined with in full
MainStructures ==
    {[container |-> Some(GoodContainer), opf |-> o] :
        o \in {OpfFr, OpfDoc(Metadata(Title \o Source \o Lang(<<>>, <<"fr">>)))}}

\* the content documents every structure and layout is combined with
MainDocsB ==
    {Doc(p, <<"y">>, <<"see ">> \o t) :
        p \in {<<>>, Declaration(<<" encoding=\"utf-8\"">>)},
        t \in {LinkA, LinkA \o <<" ">> \o LinkB}}

Archives ==
    {Archive(d, d, st, a, b) : d \in BOOLEAN, st \in MainStructures,
                               a \in DocsA, b \in DocsB}
        \cup {Archive(d, f, st, Doc(<<>>, <<"x">>, <<"Hi">>), b) :
                d \in BOOLEAN, f \in BOOLEAN, st \in Structures, b \in MainDocsB}

(***************************************************************************)
(* The converter                                                           *)
(***************************************************************************)

VARIABLES
    archive,          \* the entries of the input archive, in archive order
    pc,               \* position in convert_epub
    run,              \* which run of the pipeline this is
    files,            \* EpubConverter.files
    binary_files,     \* EpubConverter.binary_files
    altered_files,    \* EpubConverter.altered_files
    fixed_problems,   \* EpubConverter.fixed_problems
    panic,            \* the message of the panic that ended the run, or ""
    output,           \* the entries written to the output archive by this run
    prev_output       \* the output archive of the previous run

vars == <<archive, pc, run, files, binary_files, altered_files, fixed_problems,
          panic, output, prev_output>>

\* EpubConverter::new(), on some input archive
Init ==
    /\ archive \in Archives
    /\ pc = "new"
    /\ run = 1
    /\ files = <<>>
    /\ binary_files = <<>>
    /\ altered_files = EmptyMap
    /\ fixed_problems = <<>>
    /\ panic = ""
    /\ output = <<>>
    /\ prev_output = <<>>

read_epub ==
    /\ pc = "new"
    /\ files' = ReadFiles(archive, 1)
    /\ binary_files' = ReadBinaryFiles(archive, 1)
    /\ pc' = "read"
    /\ UNCHANGED <<archive, run, altered_files, fixed_problems, panic, output,
                   prev_output>>

fix_encoding ==
    /\ pc = "read"
    /\ LET r == EncodingLoop(files, 1, altered_files, fixed_problems)
       IN  /\ altered_files' = r.altered
           /\ fixed_problems' = r.problems
    /\ pc' = "encoded"
    /\ UNCHANGED <<archive, run, files, binary_files, panic, output, prev_output>>

fix_body_id_link ==
    /\ pc = "encoded"
    /\ LET r == LinkLoop(files, body_id_list(files, 1), 1, 1, altered_files,
                         fixed_problems)
       IN  /\ altered_files' = r.altered
           /\ fixed_problems' = r.problems
    /\ pc' = "linked"
    /\ UNCHANGED <<archive, run, files, binary_files, panic, output, prev_output>>

fix_book_language ==
    /\ pc = "linked"
    /\ LET r == BookLanguage(files, altered_files, fixed_problems)
       IN  /\ altered_files' = r.altered
           /\ fixed_problems' = r.problems
           /\ panic' = r.panic
           /\ pc' = IF r.panic = "" THEN "fixed" ELSE "panicked"
    /\ UNCHANGED <<archive, run, files, binary_files, output, prev_output>>

write_epub ==
    /\ pc = "fixed"
    /\ output' = WrittenEntries(files, binary_files, altered_files)
    /\ pc' = "written"
    /\ UNCHANGED <<archive, run, files, binary_files, altered_files, fixed_problems,
                   panic, prev_output>>

\* convert_epub called again, on the archive the previous call has written
convert_again ==
    /\ pc = "written"
    /\ run < MaxRuns
    /\ archive' = output
    /\ prev_output' = output
    /\ run' = run + 1
    /\ pc' = "new"
    /\ files' = <<>>
    /\ binary_files' = <<>>
    /\ altered_files' = EmptyMap
    /\ fixed_problems' = <<>>
    /\ output' = <<>>
    /\ UNCHANGED panic

Next ==
    \/ read_epub
    \/ fix_encoding
    \/ fix_body_id_link
    \/ fix_book_language
    \/ write_epub
    \/ convert_again

Spec == Init /\ [][Next]_vars

(***************************************************************************)
(* Vocabulary of the properties                                            *)
(***************************************************************************)

Names(entries) == [i \in 1..Len(entries) |-> entries[i].name]

IsTextualEntry(e) == e.name # <<>> /\ e.name[Len(e.name)] \in non_binary_suffixes
IsDirectoryEntry(e) == ~IsTextualEntry(e) /\ e.name # <<>> /\ e.name[Len(e.name)] = "/"
IsBinaryEntry(e) == ~IsTextualEntry(e) /\ ~IsDirectoryEntry(e)

\* the content written for a path
Written(name) ==
    output[CHOOSE k \in 1..Len(output) : output[k].name = name].data

WasWritten(name) == \E k \in 1..Len(output) : output[k].name = name

\* the content the previous run wrote for a path
WrittenBefore(name) ==
    prev_output[CHOOSE k \in 1..Len(prev_output) : prev_output[k].name = name].data

\* the text begins with an XML declaration that names utf-8
BeginsWithUtf8Declaration(s) ==
    /\ Len(s) >= 4
    /\ s[1] = "<?xml"
    /\ s[2] \in VersionAttrs
    /\ s[3] \in {" encoding=\"utf-8\"", " encoding=\"UTF-8\""}
    /\ s[4] = "?>"

\* the dc:language elements of a package document, and the text of one
LanguageElements(s) == {i \in 1..Len(s) : s[i] = "<dc:language"}
LanguageText(s, i) == InnerHtml(s, i, "</dc:language>")

\* the rootfile elements of container.xml that name a package document
PackageRootfiles(s) ==
    {i \in 1..Len(s) :
        /\ s[i] = "<rootfile"
        /\ Attr(s, i, " media-type=\"") = Some(OebpsPackage)
        /\ Attr(s, i, " full-path=\"").some}

FirstPackageRootfile(s) ==
    CHOOSE i \in PackageRootfiles(s) : \A k \in PackageRootfiles(s) : i <= k

\* the path of the package document this run works on
OpfName == OpfFilename(get_file_from_files(files, ContainerPath).val.file_data).val

Original(name) == get_file_from_files(files, name).val.file_data

Count(seq, P(_)) == Cardinality({i \in 1..Len(seq) : P(seq[i])})

EncodingMessages == {"Prefixed correct encoding to html for"}
LanguageMessages ==
    {"Fixed language to be supported language from", "Added missing language tag"}

\* the collected pairs whose token occurs in the original content of a file
MatchingPairs(file) ==
    LET pairs == body_id_list(files, 1)
    IN  {j \in 1..Len(pairs) : Contains(file.file_data, pairs[j].src)}

LastMatchingPair(file) ==
    LET pairs == body_id_list(files, 1)
        j == CHOOSE m \in MatchingPairs(file) : \A k \in MatchingPairs(file) : k <= m
    IN  pairs[j]

(***************************************************************************)
(* Properties                                                              *)
(***************************************************************************)

\* C1 (encoding invariant): once the archive is written, the content written
\* for every textual entry whose extension is html or xhtml begins with an XML
\* declaration that specifies encoding utf-8.
C1_EncodingInvariant ==
    pc = "written" =>
        \A i \in 1..Len(files) :
            IsHtmlOrXhtml(files[i].file_name) =>
                BeginsWithUtf8Declaration(Written(files[i].file_name))

\* C2 (language invariant): once the archive is written, the package document
\* written holds exactly one dc:language element and its text is a supported
\* language.
C2_LanguageInvariant ==
    pc = "written" =>
        LET opf == Written(OpfName)
        IN  /\ Cardinality(LanguageElements(opf)) = 1
            /\ \A i \in LanguageElements(opf) :
                  LanguageText(opf, i) \in supported_languages

\* C5 (idempotence): a second run on the output of the first writes, for every
\* html/xhtml entry and for the package document, the content the first run
\* wrote, and logs no encoding and no language diagnostic.
C5_Idempotence ==
    (run = 2 /\ pc = "written") =>
        /\ \A i \in 1..Len(files) :
              (IsHtmlOrXhtml(files[i].file_name) \/ files[i].file_name = OpfName) =>
                  Written(files[i].file_name) = WrittenBefore(files[i].file_name)
        /\ \A m \in 1..Len(fixed_problems) :
              fixed_problems[m].kind \notin EncodingMessages \cup LanguageMessages

\* C6 (link repair completeness): after fix_body_id_link, for every textual
\* entry and every collected pair whose token occurs in the entry's original
\* content, the overlay content of the entry no longer holds the token: every
\* occurrence has been replaced.
C6_LinkRepairComplete ==
    pc = "linked" =>
        \A i \in 1..Len(files) : \A j \in MatchingPairs(files[i]) :
            /\ files[i].file_name \in DOMAIN altered_files
            /\ ~Contains(altered_files[files[i].file_name],
                         body_id_list(files, 1)[j].src)

\* the diagnostics of one kind that name a file
EncodingDiagnostics(name) ==
    {m \in 1..Len(fixed_problems) : fixed_problems[m] = MsgEncoding(name)}

LanguageDiagnostics ==
    {m \in 1..Len(fixed_problems) : fixed_problems[m].kind \in LanguageMessages}

\* C8 (one diagnostic per correction applied): after the three passes, there is
\* exactly one encoding diagnostic for each html/xhtml entry that had no
\* declaration and none for an entry that had one, no language diagnostic when
\* the language is supported, and no diagnostic for a step whose replacement
\* left the content of the entry equal to the original content.
C8_OneDiagnosticPerCorrection ==
    pc = "fixed" =>
        /\ \A i \in 1..Len(files) :
              IsHtmlOrXhtml(files[i].file_name) =>
                  Cardinality(EncodingDiagnostics(files[i].file_name))
                      = IF ReIsMatch(TrimStart(files[i].file_data)) THEN 0 ELSE 1
        /\ Cardinality(LanguageDiagnostics) <= 1
        /\ LET opf == Original(OpfName)
           IN  (/\ LanguageElements(opf) # {}
                /\ \A i \in LanguageElements(opf) :
                      LanguageText(opf, i) \in supported_languages)
                   => LanguageDiagnostics = {}
        /\ LanguageDiagnostics # {} =>
              /\ OpfName \in DOMAIN altered_files
              /\ altered_files[OpfName] # Original(OpfName)
        /\ \A m \in 1..Len(fixed_problems) :
              fixed_problems[m].kind = "Replaced link target with" =>
                  Replace(Original(fixed_problems[m].c), fixed_problems[m].a,
                          fixed_problems[m].b) # Original(fixed_problems[m].c)

\* C10 (OPF location): when container.xml holds a rootfile whose media-type is
\* the package media type and that has a full-path, fix_book_language does not
\* fail with 'Cannot find OPF file'.
C10_OpfLocated ==
    (/\ pc \in {"fixed", "panicked", "written"}
     /\ get_file_from_files(files, ContainerPath).some
     /\ PackageRootfiles(get_file_from_files(files, ContainerPath).val.file_data) # {})
        => panic # "Cannot find OPF file"

\* C3 as stated (entry-order preservation): the sequence of paths written
\* equals the sequence of paths of the input archive.
C3_EntryOrderPreserved ==
    pc = "written" => Names(output) = Names(archive)

\* C3 as amended: the paths written are the paths of the textual entries in
\* input order followed by the paths of the binary entries in input order,
\* directory entries left out; so the input sequence is reproduced exactly
\* when the archive has no directory entry and no binary entry in front of a
\* textual one.
C3_TextualThenBinaryOrder ==
    pc = "written" =>
        /\ Names(output) = Names(SelectSeq(archive, IsTextualEntry))
                              \o Names(SelectSeq(archive, IsBinaryEntry))
        /\ ((/\ \A i \in 1..Len(archive) : ~IsDirectoryEntry(archive[i])
             /\ \A i, j \in 1..Len(archive) :
                   (IsBinaryEntry(archive[i]) /\ IsTextualEntry(archive[j])) => j < i)
               => Names(output) = Names(archive))

\* a written archive whose input had a directory entry and a binary entry in
\* front of a textual one
C3_Witness ==
    /\ pc = "written"
    /\ run = 1
    /\ \E i \in 1..Len(archive) : IsDirectoryEntry(archive[i])
    /\ \E i, j \in 1..Len(archive) :
          i < j /\ IsBinaryEntry(archive[i]) /\ IsTextualEntry(archive[j])
    /\ Names(output) # Names(archive)

\* C4 (binary fidelity): a binary entry is never given overlay content by a
\* pass, is held as read, and is written once, with the bytes of the input.
C4_BinaryFidelity ==
    \A i \in 1..Len(archive) :
        IsBinaryEntry(archive[i]) =>
            /\ archive[i].name \notin DOMAIN altered_files
            /\ pc # "new" =>
                  \E j \in 1..Len(binary_files) :
                      /\ binary_files[j].file_name = archive[i].name
                      /\ binary_files[j].file_data = archive[i].data
            /\ pc = "written" =>
                  /\ Cardinality({k \in 1..Len(output) :
                                    output[k].name = archive[i].name}) = 1
                  /\ Written(archive[i].name) = archive[i].data

\* a written archive with a binary entry, after passes that filled the overlay
C4_Witness ==
    /\ pc = "written"
    /\ run = 1
    /\ DOMAIN altered_files # {}
    /\ \E i \in 1..Len(archive) :
          /\ IsBinaryEntry(archive[i])
          /\ \E k \in 1..Len(output) : output[k] = archive[i]

\* the structural absences of the input: no container.xml, no rootfile that
\* names a package document, no entry at the package path, no metadata element
NoContainer ==
    ~\E i \in 1..Len(archive) :
        IsTextualEntry(archive[i]) /\ archive[i].name = ContainerPath

ContainerData ==
    archive[CHOOSE i \in 1..Len(archive) : archive[i].name = ContainerPath].data

NoPackageRootfile == PackageRootfiles(ContainerData) = {}

PackagePath ==
    Attr(ContainerData, FirstPackageRootfile(ContainerData), " full-path=\"").val

NoPackageEntry ==
    ~\E i \in 1..Len(archive) :
        IsTextualEntry(archive[i]) /\ archive[i].name = PackagePath

PackageData ==
    archive[CHOOSE i \in 1..Len(archive) : archive[i].name = PackagePath].data

NoMetadata == ~\E i \in 1..Len(PackageData) : PackageData[i] = "<metadata"

StructuralAbsence ==
    \/ NoContainer
    \/ ~NoContainer /\ NoPackageRootfile
    \/ ~NoContainer /\ ~NoPackageRootfile /\ NoPackageEntry
    \/ ~NoContainer /\ ~NoPackageRootfile /\ ~NoPackageEntry /\ NoMetadata

\* C7 (structural absence is fatal): on an input with a structural absence the
\* run never gets past fix_book_language (it ends there in a panic), and
\* nothing is written.
C7_StructuralAbsenceFatal ==
    StructuralAbsence =>
        /\ pc \in {"new", "read", "encoded", "linked", "panicked"}
        /\ output = <<>>
        /\ pc = "panicked" =>
              panic \in {"Cannot find META-INF/container.xml",
                         "Cannot find OPF file",
                         "called Option::unwrap() on a None value",
                         "Metadata tag missing in opf file"}

\* a run that fix_book_language has ended because the package document has
\* no metadata element
C7_Witness ==
    /\ pc = "panicked"
    /\ ~NoContainer /\ ~NoPackageRootfile /\ ~NoPackageEntry /\ NoMetadata
    /\ panic = "Metadata tag missing in opf file"
    /\ output = <<>>

\* what fix_book_language writes for the package document when it is given
\* the original documents and an empty overlay
LanguageResult ==
    BookLanguage(files, EmptyMap, <<>>).altered

\* C9 (overlay overwrite): a pass computes its replacement from the original
\* content.  After fix_body_id_link the overlay of an entry that holds a
\* collected token is the original content with the last matching token
\* replaced; after fix_book_language the overlay of the package document, if
\* the pass wrote it, is what the pass computes from the original alone; and
\* an html/xhtml entry that fix_encoding prefixed and fix_body_id_link rewrote
\* is written without the declaration.
C9_OverwriteFromOriginal ==
    /\ pc = "linked" =>
          \A i \in 1..Len(files) :
              MatchingPairs(files[i]) # {} =>
                  /\ files[i].file_name \in DOMAIN altered_files
                  /\ altered_files[files[i].file_name]
                        = Replace(files[i].file_data,
                                  LastMatchingPair(files[i]).src,
                                  LastMatchingPair(files[i]).target)
    /\ (pc \in {"fixed", "written"} /\ LanguageDiagnostics # {}) =>
          /\ OpfName \in DOMAIN altered_files
          /\ altered_files[OpfName] = LanguageResult[OpfName]
    /\ pc = "written" =>
          \A i \in 1..Len(files) :
              (/\ IsHtmlOrXhtml(files[i].file_name)
               /\ MatchingPairs(files[i]) # {}
               /\ EncodingDiagnostics(files[i].file_name) # {}) =>
                  /\ Written(files[i].file_name)
                        = Replace(files[i].file_data,
                                  LastMatchingPair(files[i]).src,
                                  LastMatchingPair(files[i]).target)
                  /\ ~StartsAt(Written(files[i].file_name), encoding, 1)

\* a written archive in which an html entry was prefixed by fix_encoding and
\* then rewritten by fix_body_id_link, and the package document was rewritten
\* by fix_body_id_link and then by fix_book_language
C9_Witness ==
    /\ pc = "written"
    /\ run = 1
    /\ \E i \in 1..Len(files) :
          /\ IsHtmlOrXhtml(files[i].file_name)
          /\ MatchingPairs(files[i]) # {}
          /\ EncodingDiagnostics(files[i].file_name) # {}
    /\ MatchingPairs(get_file_from_files(files, OpfName).val) # {}
    /\ LanguageDiagnostics # {}
    /\ Contains(Written(OpfName), LinkA)

====
